---- MODULE Spec2Model ----
(***************************************************************************)
(* DetectTokensController (app/scripts/controllers/detect-tokens.js).      *)
(*                                                                         *)
(* The controller owns one repeating timer, three subscriptions            *)
(* (preferences, tokensController, keyringMemStore) and the asynchronous   *)
(* method detectNewTokens().  JavaScript runs every handler to its first   *)
(* await without interleaving, so each action below is one handler run up  *)
(* to the point where it suspends.  A pass suspends twice: at the await of *)
(* its balance fetch (a pass "in flight", which a later action resolves or *)
(* rejects) and, when it called addToken, at the await of those calls (a   *)
(* pass "registering", which a later action settles).                      *)
(***************************************************************************)
EXTENDS Integers, Sequences, FiniteSets, Bags, TLC

VARIABLES
    cfg,             \* the interval option of the constructor, and which
                     \* collaborators the controller has been given
    isOpen,          \* this.isOpen, by its truthiness (undefined is FALSE)
    isUnlocked,      \* this.isUnlocked  ("undefined" until the first event)
    chainId,         \* this._network.store.getState().provider.chainId
    selectedAddress, \* this.selectedAddress
    tokenAddresses,  \* this.tokenAddresses  (list of address strings)
    hiddenTokens,    \* this.hiddenTokens    (list of JS values)
    pollInterval,    \* the value last assigned to this.interval (the setter
                     \* keeps no copy of it; the model does)
    handle,          \* this._handle  (0 models undefined)
    timers,          \* repeating timers the runtime still fires
    inflight,        \* bag of passes awaiting their balance fetch
    registering,     \* bag of passes awaiting their addToken calls
    last             \* what the most recent handler run did (observation)

vars == <<cfg, isOpen, isUnlocked, chainId, selectedAddress, tokenAddresses,
          hiddenTokens, pollInterval, handle, timers, inflight, registering,
          last>>

(***************************************************************************)
(* Bounds of the model.                                                    *)
(***************************************************************************)
MaxListLen == 1      \* longest tokens / ignoredTokens list delivered
MaxInFlight == 2     \* passes suspended at the same time
MaxTimers == 2       \* repeating timers alive at the same time

(***************************************************************************)
(* Program constants.                                                      *)
(***************************************************************************)
MINUTE == 60000
DEFAULT_INTERVAL == MINUTE * 3
MAINNET_CHAIN_ID == "0x1"
ChainIds == {MAINNET_CHAIN_ID, "0x3"}

(***************************************************************************)
(* Strings are sequences of characters so that letter case is real.        *)
(***************************************************************************)
LowerChar(c) ==
    CASE c = "A" -> "a" [] c = "B" -> "b" [] c = "C" -> "c"
      [] c = "D" -> "d" [] c = "E" -> "e" [] c = "F" -> "f"
      [] OTHER -> c

ToLowerCase(s) == [i \in DOMAIN s |-> LowerChar(s[i])]

\* JavaScript values that reach the comparisons: a string, an object with
\* an address property, or undefined.
JSString(s) == [type |-> "string", str |-> s]
JSObject(a) == [type |-> "object", str |-> a]
JSUndefined == [type |-> "undefined", str |-> <<>>]

\* v.address for a JS value v: the property of an object, undefined on a
\* string primitive.
AddressOf(v) == IF v.type = "object" THEN JSString(v.str) ELSE JSUndefined

isEqualCaseInsensitive(value1, value2) ==
    IF value1.type # "string" \/ value2.type # "string"
    THEN FALSE
    ELSE ToLowerCase(value1.str) = ToLowerCase(value2.str)

(***************************************************************************)
(* @metamask/contract-metadata: checksummed (mixed-case) keys, in the      *)
(* object's iteration order.                                               *)
(***************************************************************************)
ContractOrder == << <<"A", "b">>, <<"C", "d">>, <<"E", "f">> >>
contracts ==
    [c \in {ContractOrder[i] : i \in DOMAIN ContractOrder} |->
        IF c = <<"E", "f">>
        THEN [erc20 |-> FALSE, symbol |-> "NFT", decimals |-> 0]
        ELSE IF c = <<"A", "b">>
        THEN [erc20 |-> TRUE, symbol |-> "AB", decimals |-> 18]
        ELSE [erc20 |-> TRUE, symbol |-> "CD", decimals |-> 6]]

\* Address strings the token registry delivers, in another letter case than
\* the metadata keys.  An ignored token arrives as a string or as an object
\* with an address property: the controller reads it both ways.
TrackedAddrs == { <<"C", "D">> }
IgnoredAddrs == { <<"a", "B">> }
HiddenEntries == {JSString(a) : a \in IgnoredAddrs} \cup {JSObject(a) : a \in IgnoredAddrs}
Accounts == {"0xacc1", "0xacc2"}
Balances == {0, 5}

\* Lists of at most n elements of S; a registry list names an address at
\* most once.
SeqsUpTo(S, n) == UNION {[1..k -> S] : k \in 0..n}
TokenLists ==
    {s \in SeqsUpTo(TrackedAddrs, MaxListLen) :
        \A i, j \in DOMAIN s : s[i] = s[j] => i = j}
HiddenLists ==
    {s \in SeqsUpTo(HiddenEntries, MaxListLen) :
        \A i, j \in DOMAIN s : s[i].str = s[j].str => i = j}

\* isUnlocked is "undefined", "true" or "false": the subscription compares
\* it with !==.
Truthy(flag) == flag = "true"
FromBool(b) == IF b THEN "true" ELSE "false"

(***************************************************************************)
(* get isActive  (lines 188-190)                                           *)
(***************************************************************************)
\* Mutant: the gate opens when either flag is set.
isActiveEither(open, unlocked) == open \/ Truthy(unlocked)

isActive(open, unlocked) == open /\ Truthy(unlocked)

(***************************************************************************)
(* detectNewTokens, lines 66-80: the candidate list.  The tracked list     *)
(* holds strings; an element of hiddenTokens is read through .address.     *)
(***************************************************************************)
FindTracked(tokAddrs, contractAddress) ==
    \E i \in DOMAIN tokAddrs :
        isEqualCaseInsensitive(JSString(tokAddrs[i]), JSString(contractAddress))

FindHiddenByAddress(hidden, contractAddress) ==
    \E i \in DOMAIN hidden :
        isEqualCaseInsensitive(AddressOf(hidden[i]), JSString(contractAddress))

IsCandidate(tokAddrs, hidden, contractAddress) ==
    /\ contracts[contractAddress].erc20
    /\ ~FindTracked(tokAddrs, contractAddress)
    /\ ~FindHiddenByAddress(hidden, contractAddress)

TokensToDetect(tokAddrs, hidden) ==
    LET Keep(c) == IsCandidate(tokAddrs, hidden, c)
    IN SelectSeq(ContractOrder, Keep)

(***************************************************************************)
(* detectNewTokens, lines 58-91, up to the await of the balance fetch.     *)
(* pass is "inactive" (line 60), "offchain" (line 63), "threw" (a          *)
(* TypeError on a collaborator that was not given: this._network at line   *)
(* 62, this.tokenAddresses at line 71) or "fetch" (line 84 reached).       *)
(***************************************************************************)
NoPass ==
    [pass |-> "none", readNetwork |-> FALSE, tokens |-> <<>>, owner |-> "undefined"]

\* Mutant: the chain id is not compared with MAINNET_CHAIN_ID.
DetectNewTokensAnyChain(open, unlocked, sel) ==
    IF ~isActive(open, unlocked)
    THEN [NoPass EXCEPT !.pass = "inactive"]
    ELSE IF ~cfg.network
    THEN [NoPass EXCEPT !.pass = "threw"]
    ELSE IF ~cfg.tokensController
            /\ \E i \in DOMAIN ContractOrder : contracts[ContractOrder[i]].erc20
    THEN [NoPass EXCEPT !.pass = "threw", !.readNetwork = TRUE]
    ELSE [pass |-> "fetch", readNetwork |-> TRUE,
          tokens |-> TokensToDetect(tokenAddresses, hiddenTokens),
          owner |-> sel]

\* Mutant: a pass does not start while another one awaits its fetch.
DetectNewTokensExclusive(open, unlocked, sel) ==
    IF ~isActive(open, unlocked) \/ inflight # EmptyBag
    THEN [NoPass EXCEPT !.pass = "inactive"]
    ELSE IF ~cfg.network
    THEN [NoPass EXCEPT !.pass = "threw"]
    ELSE IF chainId # MAINNET_CHAIN_ID
    THEN [NoPass EXCEPT !.pass = "offchain", !.readNetwork = TRUE]
    ELSE IF ~cfg.tokensController
            /\ \E i \in DOMAIN ContractOrder : contracts[ContractOrder[i]].erc20
    THEN [NoPass EXCEPT !.pass = "threw", !.readNetwork = TRUE]
    ELSE [pass |-> "fetch", readNetwork |-> TRUE,
          tokens |-> TokensToDetect(tokenAddresses, hiddenTokens),
          owner |-> sel]

\* Mutant: a pass with no candidate returns before the fetch.
DetectNewTokensSkipEmpty(open, unlocked, sel) ==
    IF ~isActive(open, unlocked)
    THEN [NoPass EXCEPT !.pass = "inactive"]
    ELSE IF ~cfg.network
    THEN [NoPass EXCEPT !.pass = "threw"]
    ELSE IF chainId # MAINNET_CHAIN_ID
    THEN [NoPass EXCEPT !.pass = "offchain", !.readNetwork = TRUE]
    ELSE IF ~cfg.tokensController
            /\ \E i \in DOMAIN ContractOrder : contracts[ContractOrder[i]].erc20
    THEN [NoPass EXCEPT !.pass = "threw", !.readNetwork = TRUE]
    ELSE IF TokensToDetect(tokenAddresses, hiddenTokens) = <<>>
    THEN [NoPass EXCEPT !.pass = "offchain", !.readNetwork = TRUE]
    ELSE [pass |-> "fetch", readNetwork |-> TRUE,
          tokens |-> TokensToDetect(tokenAddresses, hiddenTokens),
          owner |-> sel]

DetectNewTokens(open, unlocked, sel) ==
    IF ~isActive(open, unlocked)
    THEN [NoPass EXCEPT !.pass = "inactive"]
    ELSE IF ~cfg.network
    THEN [NoPass EXCEPT !.pass = "threw"]
    ELSE IF chainId # MAINNET_CHAIN_ID
    THEN [NoPass EXCEPT !.pass = "offchain", !.readNetwork = TRUE]
    ELSE IF ~cfg.tokensController
            /\ \E i \in DOMAIN ContractOrder : contracts[ContractOrder[i]].erc20
    THEN [NoPass EXCEPT !.pass = "threw", !.readNetwork = TRUE]
    ELSE [pass |-> "fetch", readNetwork |-> TRUE,
          tokens |-> TokensToDetect(tokenAddresses, hiddenTokens),
          owner |-> sel]

(***************************************************************************)
(* set interval  (lines 144-152).  clearInterval removes the timer whose   *)
(* id is stored; the stored id itself is only overwritten by a new         *)
(* setInterval.                                                            *)
(***************************************************************************)
TimerState(h, tms) == [handle |-> h, timers |-> tms]

ClearInterval(tms, h) == {t \in tms : t.id # h}

\* setInterval: the runtime returns an id that identifies the new timer
\* among the live ones.  The controller only ever passes the id it holds to
\* clearInterval, and overwrites it with the id of the timer it installs,
\* so the least id no live timer has stands for a never used one.
FreshTimerId(tms) ==
    CHOOSE id \in 1..(MaxTimers + 1) :
        /\ \A t \in tms : t.id # id
        /\ \A other \in 1..(id - 1) : \E t \in tms : t.id = other

\* Mutant: the previous timer is not cancelled.
SetIntervalNoClear(h, tms, interval) ==
    IF interval = 0
    THEN TimerState(h, tms)
    ELSE LET id == FreshTimerId(tms)
         IN TimerState(id, tms \cup {[id |-> id, period |-> interval]})

\* Mutant: a falsy interval returns before the previous timer is cancelled.
SetIntervalKeepOnZero(h, tms, interval) ==
    LET cleared == IF h # 0 THEN ClearInterval(tms, h) ELSE tms
        id == FreshTimerId(cleared)
    IN IF interval = 0
       THEN TimerState(h, tms)
       ELSE TimerState(id, cleared \cup {[id |-> id, period |-> interval]})

SetIntervalResult(h, tms, interval) ==
    LET cleared == IF h # 0 THEN ClearInterval(tms, h) ELSE tms
        id == FreshTimerId(cleared)
    IN IF interval = 0
       THEN TimerState(h, cleared)
       ELSE TimerState(id, cleared \cup {[id |-> id, period |-> interval]})

(***************************************************************************)
(* restartTokenDetection  (lines 132-138)                                  *)
(***************************************************************************)
\* Mutant: the selected address is not looked at.
RestartRunsAnyAddress(open, unlocked, sel) == isActive(open, unlocked)

RestartRuns(open, unlocked, sel) == isActive(open, unlocked) /\ sel # "undefined"

RestartInterval == DEFAULT_INTERVAL

(***************************************************************************)
(* The observation of one handler run.                                     *)
(***************************************************************************)
\*   op          what ran: "init" (the constructor), "tick" (the timer
\*               callback), "detect" (detectNewTokens called by the host),
\*               "restart" (restartTokenDetection, called by the host or by
\*               a subscription), "event" (a subscription callback that
\*               calls no method), "env" (isOpen or interval assigned by
\*               the host, a collaborator given through its setter, or a
\*               change of the network store), "resolve" and "reject" (the
\*               continuation of a pass after its fetch), "settle" (the end
\*               of a pass once its addToken calls settled)
\*   restart     restartTokenDetection was called
\*   pass        how far detectNewTokens got ("none": not called)
\*   readNetwork the network store was read
\*   tokens, owner   the arguments of the balance fetch, when pass = "fetch"
\*   warned      loglevel.warn was called
\*   propagated  the promise of detectNewTokens rejected after the fetch
\*   calls       for "settle": the addToken calls of the pass that ended
\*   positive    the fetched addresses whose returned balance is not zero
\*   added       the addresses addToken was called with, in call order
Obs(op) ==
    [op |-> op, restart |-> FALSE, pass |-> "none", readNetwork |-> FALSE,
     tokens |-> <<>>, owner |-> "undefined", warned |-> FALSE,
     propagated |-> FALSE, positive |-> {}, added |-> <<>>, calls |-> <<>>]

\* One synchronous run that may call restartTokenDetection and/or
\* detectNewTokens, with the flags and selected address as the handler has
\* just set them.
Run(op, open, unlocked, sel, callsRestart, callsDetect) ==
    LET runs == callsRestart /\ RestartRuns(open, unlocked, sel)
        out == IF callsDetect \/ runs
               THEN DetectNewTokens(open, unlocked, sel)
               ELSE NoPass
        tm == IF runs
              THEN SetIntervalResult(handle, timers, RestartInterval)
              ELSE TimerState(handle, timers)
    IN /\ out.pass = "fetch" =>
              BagCardinality(inflight) + BagCardinality(registering) < MaxInFlight
       /\ Cardinality(tm.timers) <= MaxTimers
       /\ inflight' = IF out.pass = "fetch"
                      THEN inflight (+) SetToBag({[owner |-> out.owner, tokens |-> out.tokens]})
                      ELSE inflight
       /\ UNCHANGED registering
       /\ pollInterval' = IF runs THEN RestartInterval ELSE pollInterval
       /\ handle' = tm.handle
       /\ timers' = tm.timers
       /\ last' = [Obs(op) EXCEPT !.restart = callsRestart, !.pass = out.pass,
                                  !.readNetwork = out.readNetwork,
                                  !.tokens = out.tokens, !.owner = out.owner]

(***************************************************************************)
(* Actions.                                                                *)
(***************************************************************************)
\* The callback installed at lines 149-151 fires.
TimerTick ==
    /\ timers # {}
    /\ Run("tick", isOpen, isUnlocked, selectedAddress, FALSE, TRUE)
    /\ UNCHANGED <<cfg, isOpen, isUnlocked, chainId, selectedAddress,
                   tokenAddresses, hiddenTokens>>

\* detectNewTokens() called by the host.
DetectCall ==
    /\ Run("detect", isOpen, isUnlocked, selectedAddress, FALSE, TRUE)
    /\ UNCHANGED <<cfg, isOpen, isUnlocked, chainId, selectedAddress,
                   tokenAddresses, hiddenTokens>>

\* restartTokenDetection() called by the host.
RestartCall ==
    /\ Run("restart", isOpen, isUnlocked, selectedAddress, TRUE, FALSE)
    /\ UNCHANGED <<cfg, isOpen, isUnlocked, chainId, selectedAddress,
                   tokenAddresses, hiddenTokens>>

\* controller.interval = v
SetInterval(v) ==
    LET tm == SetIntervalResult(handle, timers, v)
    IN /\ Cardinality(tm.timers) <= MaxTimers
       /\ pollInterval' = v
       /\ handle' = tm.handle
       /\ timers' = tm.timers
       /\ last' = Obs("env")
       /\ UNCHANGED <<cfg, isOpen, isUnlocked, chainId, selectedAddress,
                      tokenAddresses, hiddenTokens, inflight, registering>>

\* controller.isOpen = b  (the host reports the UI open or closed)
SetIsOpen(b) ==
    /\ isOpen' = b
    /\ last' = Obs("env")
    /\ UNCHANGED <<cfg, isUnlocked, chainId, selectedAddress, tokenAddresses,
                   hiddenTokens, pollInterval, handle, timers, inflight,
                   registering>>

\* Mutant: restartTokenDetection is called on every event that delivers
\* true, whether or not the flag changes.
KeyringUpdateOnLevel(b) ==
    /\ cfg.keyringMemStore
    /\ isUnlocked' = FromBool(b)
    /\ Run(IF b THEN "restart" ELSE "event",
           isOpen, FromBool(b), selectedAddress, b, FALSE)
    /\ UNCHANGED <<cfg, isOpen, chainId, selectedAddress, tokenAddresses, hiddenTokens>>

\* keyringMemStore subscription (lines 174-181)
KeyringUpdate(b) ==
    /\ cfg.keyringMemStore
    /\ IF isUnlocked # FromBool(b)
       THEN /\ isUnlocked' = FromBool(b)
            /\ Run(IF b THEN "restart" ELSE "event",
                   isOpen, FromBool(b), selectedAddress, b, FALSE)
       ELSE /\ UNCHANGED isUnlocked
            /\ Run("event", isOpen, isUnlocked, selectedAddress, FALSE, FALSE)
    /\ UNCHANGED <<cfg, isOpen, chainId, selectedAddress, tokenAddresses, hiddenTokens>>

\* Mutant: restartTokenDetection is called on every preferences update.
PreferencesUpdateAlways(a) ==
    /\ cfg.preferences
    /\ selectedAddress' = a
    /\ Run("restart", isOpen, isUnlocked, a, TRUE, FALSE)
    /\ UNCHANGED <<cfg, isOpen, isUnlocked, chainId, tokenAddresses, hiddenTokens>>

\* preferences store subscription (lines 41-46)
PreferencesUpdate(a) ==
    /\ cfg.preferences
    /\ IF selectedAddress # a
       THEN /\ selectedAddress' = a
            /\ Run("restart", isOpen, isUnlocked, a, TRUE, FALSE)
       ELSE /\ UNCHANGED selectedAddress
            /\ Run("event", isOpen, isUnlocked, selectedAddress, FALSE, FALSE)
    /\ UNCHANGED <<cfg, isOpen, isUnlocked, chainId, tokenAddresses, hiddenTokens>>

\* tokensController subscription (lines 47-52); a field the delivered state
\* lacks defaults to the empty list.
Absent == [present |-> FALSE, list |-> <<>>]
Given(list) == [present |-> TRUE, list |-> list]
OrEmpty(field) == IF field.present THEN field.list ELSE <<>>

\* Mutant: the callback goes on to call detectNewTokens.
TokensUpdateThenDetect(tokens, ignoredTokens) ==
    /\ cfg.tokensController
    /\ tokenAddresses' = OrEmpty(tokens)
    /\ hiddenTokens' = OrEmpty(ignoredTokens)
    /\ Run("event", isOpen, isUnlocked, selectedAddress, FALSE, TRUE)
    /\ UNCHANGED <<cfg, isOpen, isUnlocked, chainId, selectedAddress>>

TokensUpdate(tokens, ignoredTokens) ==
    /\ cfg.tokensController
    /\ tokenAddresses' = OrEmpty(tokens)
    /\ hiddenTokens' = OrEmpty(ignoredTokens)
    /\ last' = Obs("event")
    /\ UNCHANGED <<cfg, isOpen, isUnlocked, chainId, selectedAddress,
                   pollInterval, handle, timers, inflight, registering>>

\* controller.network = network, the network's store being on chain c
\* (lines 157-163): from then on detectNewTokens reads that network.
SetNetwork(c) ==
    /\ cfg' = [cfg EXCEPT !.network = TRUE]
    /\ chainId' = c
    /\ last' = Obs("env")
    /\ UNCHANGED <<isOpen, isUnlocked, selectedAddress, tokenAddresses,
                   hiddenTokens, pollInterval, handle, timers, inflight,
                   registering>>

\* controller.keyringMemStore = store (lines 169-182): the store is
\* subscribed to.  A callback subscribed earlier stays subscribed; run
\* after it, the new one finds the flag already stored and does nothing.
SetKeyringMemStore ==
    /\ cfg' = [cfg EXCEPT !.keyringMemStore = TRUE]
    /\ last' = Obs("env")
    /\ UNCHANGED <<isOpen, isUnlocked, chainId, selectedAddress, tokenAddresses,
                   hiddenTokens, pollInterval, handle, timers, inflight,
                   registering>>

\* The network store moves to another chain.
ChainSwitch(c) ==
    /\ cfg.network
    /\ chainId' = c
    /\ last' = Obs("env")
    /\ UNCHANGED <<cfg, isOpen, isUnlocked, selectedAddress, tokenAddresses,
                   hiddenTokens, pollInterval, handle, timers, inflight,
                   registering>>

(***************************************************************************)
(* detectNewTokens, lines 93-110: what happens once the fetch resolved.    *)
(* Every callback of the map runs to its own await before Promise.all is   *)
(* awaited, so all addToken calls of a pass are issued in one run.  Here   *)
(* an element of hiddenTokens is compared as the address string itself.    *)
(***************************************************************************)
FindHiddenAsString(hidden, tokenAddress) ==
    /\ Len(hidden) # 0
    /\ \E i \in DOMAIN hidden :
           isEqualCaseInsensitive(hidden[i], JSString(tokenAddress))

\* Mutant: any entry of the ignored list counts as a match.
ShouldAddOnlyIfNoneHidden(balance, hidden, tokenAddress) ==
    /\ balance # 0
    /\ Len(hidden) = 0

ShouldAdd(balance, hidden, tokenAddress) ==
    /\ balance # 0
    /\ ~FindHiddenAsString(hidden, tokenAddress)

\* Mutant: the calls are awaited one after the other and the first one
\* rejects, so no other call is made.
AddTokenCallsStopAtFirst(tokens, result, hidden) ==
    LET Index == [i \in DOMAIN tokens |-> i]
        Hit(i) == ShouldAdd(result[i], hidden, tokens[i])
        hits == SelectSeq(Index, Hit)
        all == [k \in DOMAIN hits |-> tokens[hits[k]]]
    IN SubSeq(all, 1, IF Len(all) = 0 THEN 0 ELSE 1)

\* The addresses addToken is called with, in call order.
AddTokenCalls(tokens, result, hidden) ==
    LET Index == [i \in DOMAIN tokens |-> i]
        Hit(i) == ShouldAdd(result[i], hidden, tokens[i])
        hits == SelectSeq(Index, Hit)
    IN [k \in DOMAIN hits |-> tokens[hits[k]]]

\* Mutant: the catch block rethrows.
OnFetchErrorRethrow == [warned |-> TRUE, propagated |-> TRUE, added |-> <<>>]

\* lines 85-91: the catch block of the fetch.
OnFetchError == [warned |-> TRUE, propagated |-> FALSE, added |-> <<>>]

Range(s) == {s[i] : i \in DOMAIN s}

\* The balance fetch of pass p resolves with result: the continuation
\* issues every addToken call in this run and suspends at their await
\* (lines 103, 93).  With no call to await the pass ends in the microtasks
\* of the same run.
FetchResolve(p, result) ==
    LET added == AddTokenCalls(p.tokens, result, hiddenTokens)
    IN /\ inflight' = inflight (-) SetToBag({p})
       /\ registering' = IF added = <<>>
                         THEN registering
                         ELSE registering (+) SetToBag({added})
       /\ last' = [Obs("resolve") EXCEPT
                       !.positive = {p.tokens[i] : i \in {j \in DOMAIN p.tokens : result[j] # 0}},
                       !.added = added]
       /\ UNCHANGED <<cfg, isOpen, isUnlocked, chainId, selectedAddress,
                      tokenAddresses, hiddenTokens, pollInterval, handle, timers>>

\* The addToken calls q of a registering pass settle; failing is the set of
\* addresses whose call rejected.  Promise.all rejects with the first
\* rejection and nothing catches it, so the promise of detectNewTokens
\* rejects; otherwise it resolves.
AddTokenSettles(q, failing) ==
    /\ registering' = registering (-) SetToBag({q})
    /\ last' = [Obs("settle") EXCEPT !.calls = q,
                                     !.propagated = (failing # {})]
    /\ UNCHANGED <<cfg, isOpen, isUnlocked, chainId, selectedAddress,
                   tokenAddresses, hiddenTokens, pollInterval, handle, timers,
                   inflight>>

\* The balance fetch of pass p fails.
FetchReject(p) ==
    /\ inflight' = inflight (-) SetToBag({p})
    /\ last' = [Obs("reject") EXCEPT !.warned = OnFetchError.warned,
                                     !.propagated = OnFetchError.propagated,
                                     !.added = OnFetchError.added]
    /\ UNCHANGED <<cfg, isOpen, isUnlocked, chainId, selectedAddress,
                   tokenAddresses, hiddenTokens, pollInterval, handle, timers,
                   registering>>

(***************************************************************************)
(* The state after the constructor (lines 23-53).                          *)
(***************************************************************************)
\* The intervals the host assigns, and the interval option the controller
\* is built with: falsy (no timer is installed), a custom one, or the
\* default of line 24.
Intervals == {0, MINUTE}
ConfigIntervals == {0, MINUTE, DEFAULT_INTERVAL}
Erc20Contracts == {c \in DOMAIN contracts : contracts[c].erc20}

Init ==
    /\ cfg \in [interval : ConfigIntervals, preferences : BOOLEAN, network : BOOLEAN,
                keyringMemStore : BOOLEAN, tokensController : BOOLEAN]
    /\ isOpen = FALSE
    /\ isUnlocked = "undefined"
    /\ chainId \in (IF cfg.network THEN ChainIds ELSE {MAINNET_CHAIN_ID})
    /\ selectedAddress \in (IF cfg.preferences THEN Accounts ELSE {"undefined"})
    /\ tokenAddresses \in (IF cfg.tokensController THEN TokenLists ELSE {<<>>})
    /\ hiddenTokens \in (IF cfg.tokensController THEN HiddenLists ELSE {<<>>})
    /\ pollInterval = cfg.interval
    /\ LET tm == SetIntervalResult(0, {}, cfg.interval)
       IN /\ handle = tm.handle
          /\ timers = tm.timers
    /\ inflight = EmptyBag
    /\ registering = EmptyBag
    /\ last = Obs("init")

Next ==
    \/ TimerTick
    \/ DetectCall
    \/ RestartCall
    \/ \E v \in Intervals : SetInterval(v)
    \/ \E b \in BOOLEAN : SetIsOpen(b)
    \/ \E b \in BOOLEAN : KeyringUpdate(b)
    \/ \E a \in Accounts : PreferencesUpdate(a)
    \/ \E t \in {Given(l) : l \in TokenLists} \cup {Absent},
          i \in {Given(l) : l \in HiddenLists} \cup {Absent} :
           TokensUpdate(t, i)
    \/ \E c \in ChainIds : SetNetwork(c)
    \/ SetKeyringMemStore
    \/ \E c \in ChainIds : ChainSwitch(c)
    \/ \E p \in BagToSet(inflight) :
           \E result \in [DOMAIN p.tokens -> Balances] : FetchResolve(p, result)
    \/ \E p \in BagToSet(inflight) : FetchReject(p)
    \/ \E q \in BagToSet(registering) :
           \E failing \in SUBSET Range(q) : AddTokenSettles(q, failing)

Spec == Init /\ [][Next]_vars

(***************************************************************************)
(* What the claims speak about.                                            *)
(***************************************************************************)
\* The address an entry of the ignored list stands for, whichever way the
\* registry delivered it.
IsIgnored(hidden, a) ==
    \E i \in DOMAIN hidden : ToLowerCase(hidden[i].str) = ToLowerCase(a)

IsTracked(tokAddrs, a) ==
    \E i \in DOMAIN tokAddrs : ToLowerCase(tokAddrs[i]) = ToLowerCase(a)

\* detectNewTokens was called in the last run.
PassStarted == last.pass # "none"

\* C1. Activation gate: a call of detectNewTokens (by the timer, by
\* restartTokenDetection or by the host) made while isOpen and isUnlocked
\* are not both true returns at once: no network store read, no balance
\* fetch, no addToken call.
C1_ActivationGate ==
    (PassStarted /\ ~(isOpen /\ isUnlocked = "true")) =>
        /\ last.pass = "inactive"
        /\ ~last.readNetwork
        /\ last.tokens = <<>>
        /\ last.added = <<>>

C1_Witness ==
    /\ last.op = "tick"
    /\ last.pass = "inactive"
    /\ ~isOpen
    /\ isUnlocked = "true"

\* C2. Chain gate: a call of detectNewTokens made while the network store
\* is on another chain than MAINNET_CHAIN_ID issues no balance fetch and
\* no addToken call, whatever isOpen and isUnlocked are.
C2_ChainGate ==
    (PassStarted /\ chainId # MAINNET_CHAIN_ID) =>
        /\ last.pass \in {"inactive", "offchain"}
        /\ last.tokens = <<>>
        /\ last.added = <<>>

C2_Witness ==
    /\ last.pass = "offchain"
    /\ isOpen
    /\ isUnlocked = "true"
    /\ chainId # MAINNET_CHAIN_ID

\* C3. Candidate exclusion: the list handed to the balance fetch is exactly
\* the erc20 contract-metadata addresses that are neither tracked nor
\* ignored, compared without regard to letter case.
C3_CandidateExclusion ==
    last.pass = "fetch" =>
        Range(last.tokens) =
            {c \in Erc20Contracts :
                ~IsTracked(tokenAddresses, c) /\ ~IsIgnored(hiddenTokens, c)}

\* C4. Registration condition: after a successful fetch addToken is called
\* for exactly the candidates with a balance above zero whose address is
\* not in the ignored list as it stands when the result is evaluated.
C4_RegistrationCondition ==
    last.op = "resolve" =>
        Range(last.added) =
            {t \in last.positive : ~IsIgnored(hiddenTokens, t)}

\* C5. Fetch failure: the run that handles a failed fetch logs a warning,
\* calls addToken for no token, does not reject the promise of
\* detectNewTokens and leaves the timer as it is, so that the timer
\* callback can start the next pass.
C5_FetchFailure ==
    [][last'.op = "reject" =>
          /\ last'.warned
          /\ last'.added = <<>>
          /\ ~last'.propagated
          /\ UNCHANGED <<handle, timers>>
          /\ BagCardinality(inflight') < BagCardinality(inflight)]_vars

C5_Witness ==
    /\ last.op = "reject"
    /\ last.warned
    /\ timers # {}
    /\ ENABLED TimerTick

\* C6. Timer re-arm: at most one repeating timer is alive, and it is the
\* one whose id the controller holds, i.e. the one installed last.
C6_SingleTimer ==
    /\ Cardinality(timers) <= 1
    /\ \A t \in timers : t.id = handle

\* The setter ran while a timer was installed: restartTokenDetection has
\* replaced the constructor's timer.
C6_Witness ==
    /\ last.restart
    /\ cfg.interval = MINUTE
    /\ timers = {[id |-> handle, period |-> DEFAULT_INTERVAL]}

\* C7. Restart behaviour: restartTokenDetection calls detectNewTokens in
\* the same run when isOpen and isUnlocked are true and a selected address
\* is known; otherwise it starts no pass, reads no collaborator, and leaves
\* the timer and the pending passes as they are.
C7_Restart ==
    [][last'.restart =>
          IF isOpen' /\ isUnlocked' = "true" /\ selectedAddress' # "undefined"
          THEN PassStarted'
          ELSE /\ ~PassStarted'
               /\ ~last'.readNetwork
               /\ UNCHANGED <<pollInterval, handle, timers, inflight,
                              registering>>]_vars

C7_Witness ==
    /\ last.op = "restart"
    /\ last.restart
    /\ last.pass = "fetch"

\* C8. Registration isolation: addToken is called for every candidate of
\* the pass that has a balance above zero and is not ignored, also when
\* the addToken call of another candidate fails.
C8_RegistrationIsolation ==
    last.op = "resolve" =>
        \A t \in last.positive :
            ~IsIgnored(hiddenTokens, t) => t \in Range(last.added)

\* A pass made two addToken calls and one of them failed.
C8_Witness ==
    /\ last.op = "settle"
    /\ last.propagated
    /\ Len(last.calls) = 2

\* C9. Misconfiguration degrades silently: with a collaborator missing no
\* operation raises.
C9_NoRaise == last.pass # "threw"

\* C10. Timer-handle invariant: in every reachable state the stored handle
\* is non-null exactly when the poll interval is above zero.
C10_HandleIffInterval == (handle # 0) <=> (pollInterval > 0)

\* C10 as amended: a timer is alive exactly when the poll interval is
\* above zero, and then it is the one the stored handle names and has that
\* period; after the setter ran with 0 no timer is alive (the handle of
\* the cancelled timer may remain stored).
C10_TimerIffInterval ==
    IF pollInterval > 0
    THEN handle # 0 /\ timers = {[id |-> handle, period |-> pollInterval]}
    ELSE timers = {}

\* The setter ran with 0 on a controller that had a timer.
C10_Witness ==
    /\ pollInterval = 0
    /\ handle # 0
    /\ timers = {}

(***************************************************************************)
(* Fair scheduling.  The runtime fires a live repeating timer again and    *)
(* again; a balance fetch that was issued completes, by resolving or by    *)
(* rejecting, and so do the addToken calls; and the fetch is not made to   *)
(* fail for ever: a pass that asked for token t with a balance above zero  *)
(* gets its result again and again.                                        *)
(***************************************************************************)
\* Some pending fetch completes.
FetchCompletes ==
    \E p \in BagToSet(inflight) :
        \/ FetchReject(p)
        \/ \E result \in [DOMAIN p.tokens -> Balances] : FetchResolve(p, result)

\* A pending fetch that asked for token t resolves, with a balance above
\* zero for t.
FetchSucceedsFor(t) ==
    \E p \in BagToSet(inflight) :
        \E result \in [DOMAIN p.tokens -> Balances] :
            /\ \E i \in DOMAIN p.tokens : p.tokens[i] = t /\ result[i] # 0
            /\ FetchResolve(p, result)

\* The addToken calls of some registering pass settle.
AddTokenCompletes ==
    \E q \in BagToSet(registering) :
        \E failing \in SUBSET Range(q) : AddTokenSettles(q, failing)

Fairness ==
    /\ WF_vars(TimerTick)
    /\ WF_vars(FetchCompletes)
    /\ WF_vars(AddTokenCompletes)
    /\ \A t \in Erc20Contracts : SF_vars(FetchSucceedsFor(t))

\* The liveness scenario: every collaborator was given to the constructor,
\* which installed a timer, and the account is not switched (the preferences store still publishes
\* updates, with the selected address unchanged); everything the conditions
\* of detection depend on moves freely.
LiveInit ==
    /\ Init
    /\ cfg.preferences /\ cfg.network /\ cfg.keyringMemStore /\ cfg.tokensController
    /\ cfg.interval = MINUTE
    /\ selectedAddress = "0xacc1"

LiveNext ==
    \/ TimerTick
    \/ DetectCall
    \/ RestartCall
    \/ \E v \in Intervals : SetInterval(v)
    \/ \E b \in BOOLEAN : SetIsOpen(b)
    \/ \E b \in BOOLEAN : KeyringUpdate(b)
    \/ PreferencesUpdate(selectedAddress)
    \/ \E t \in {Given(l) : l \in TokenLists} \cup {Absent},
          i \in {Given(l) : l \in HiddenLists} \cup {Absent} :
           TokensUpdate(t, i)
    \/ \E c \in ChainIds : SetNetwork(c)
    \/ SetKeyringMemStore
    \/ \E c \in ChainIds : ChainSwitch(c)
    \/ FetchCompletes
    \/ AddTokenCompletes

LiveSpec == LiveInit /\ [][LiveNext]_vars /\ Fairness

\* The conditions of detection for token t: both collaborators the pass
\* reads were given, the detector is active, the chain is mainnet, a timer
\* is armed, and t is neither tracked nor ignored.
Detectable(t) ==
    /\ cfg.network
    /\ cfg.tokensController
    /\ isOpen
    /\ isUnlocked = "true"
    /\ chainId = MAINNET_CHAIN_ID
    /\ timers # {}
    /\ ~IsTracked(tokenAddresses, t)
    /\ ~IsIgnored(hiddenTokens, t)

\* addToken was called for t in the last run.
AddTokenCalledFor(t) == last.op = "resolve" /\ t \in Range(last.added)

\* C11. Detection liveness: if from some point on the conditions of
\* detection hold for an erc20 token for ever, then, the timer firing
\* fairly and the fetch eventually succeeding with a balance above zero
\* for it, addToken is called for that token (again and again, as long as
\* the registry does not report it tracked).
C11_DetectionLiveness ==
    \A t \in Erc20Contracts :
        []<>(~Detectable(t) \/ AddTokenCalledFor(t))

\* addToken was called for a token whose conditions of detection hold.
C11_Witness ==
    \E t \in Erc20Contracts : Detectable(t) /\ AddTokenCalledFor(t)

\* restartTokenDetection got past its guard in the last run (line 136
\* reached: it is the only way a run that calls it starts a pass).
RestartRan == last.restart /\ PassStarted

\* C12. Restart re-arms at the configured interval: after
\* restartTokenDetection ran, the poll interval is the one the constructor
\* was given and exactly one timer, with that period, is alive.
C12_RestartAtConfigured ==
    RestartRan =>
        /\ pollInterval = cfg.interval
        /\ timers = {[id |-> handle, period |-> cfg.interval]}

\* A call of detectNewTokens made now passes both gates and finds the
\* collaborators it reads.
GatesOpen ==
    /\ cfg.network
    /\ cfg.tokensController
    /\ isOpen
    /\ isUnlocked = "true"
    /\ chainId = MAINNET_CHAIN_ID

\* The fetch the last run issued.
LastFetch == [owner |-> last.owner, tokens |-> last.tokens]

\* C13. Overlapping passes: a call of detectNewTokens that finds the gates
\* open issues its own fetch whatever is still pending; the pending passes
\* stay pending and the new one is added to them.
C13_OverlappingPasses ==
    [][(PassStarted' /\ GatesOpen') =>
          /\ last'.pass = "fetch"
          /\ inflight' = inflight (+) SetToBag({LastFetch'})]_vars

\* The timer fired while a pass was awaiting its fetch: two are in flight.
C13_Witness ==
    /\ last.op = "tick"
    /\ last.pass = "fetch"
    /\ BagCardinality(inflight) = 2

\* The last run was a subscription callback, as far as its observation
\* tells: one that called restartTokenDetection or one that called no
\* method (every subscription action records one of the two).
CallbackRun == last.op \in {"restart", "event"}

\* The timer, the poll interval and the pending passes are as they were.
NothingStarted ==
    /\ ~PassStarted'
    /\ UNCHANGED <<pollInterval, handle, timers, inflight, registering>>

\* C14. Unlock edge: a keyringMemStore event changes isUnlocked only to
\* the delivered value and only when that differs from the stored one; it
\* calls restartTokenDetection exactly when it changes the flag to true;
\* an event that locks, or that repeats the stored value, starts no pass
\* and leaves the timer as it is.
C14_UnlockEdge ==
    [][CallbackRun' =>
          \A b \in BOOLEAN :
              KeyringUpdate(b) =>
                  /\ isUnlocked' = FromBool(b)
                  /\ last'.restart <=> (b /\ isUnlocked # "true")
                  /\ ~(b /\ isUnlocked # "true") => NothingStarted]_vars

\* A keyringMemStore event delivered true to a detector that was unlocked:
\* without preferences and tokensController no other subscription exists,
\* so the subscription callback that called no method is the keyring one.
C14_Witness ==
    /\ cfg.keyringMemStore /\ ~cfg.preferences /\ ~cfg.tokensController
    /\ last.op = "event"
    /\ isUnlocked = "true"
    /\ isOpen

\* C15. Account-switch edge: a preferences update stores the delivered
\* selectedAddress and calls restartTokenDetection exactly when it differs
\* from the stored one; an update with the same address changes no field
\* of the detector, starts no pass and leaves the timer as it is.
C15_AccountSwitchEdge ==
    [][CallbackRun' =>
          \A a \in Accounts :
              PreferencesUpdate(a) =>
                  /\ selectedAddress' = a
                  /\ last'.restart <=> (a # selectedAddress)
                  /\ (a = selectedAddress) =>
                         /\ NothingStarted
                         /\ UNCHANGED <<isOpen, isUnlocked, chainId,
                                        tokenAddresses, hiddenTokens>>]_vars

\* A preferences update with the stored address: without keyringMemStore
\* and tokensController no other subscription exists, so the subscription
\* callback that called no method is the preferences one.
C15_Witness ==
    /\ cfg.preferences /\ ~cfg.keyringMemStore /\ ~cfg.tokensController
    /\ last.op = "event"
    /\ selectedAddress \in Accounts
    /\ timers # {}

\* What a tokensController update can deliver for one field.
TokenFields == {Given(l) : l \in TokenLists} \cup {Absent}
HiddenFields == {Given(l) : l \in HiddenLists} \cup {Absent}

\* C16. Token-list update is snapshot-only: a tokensController update
\* replaces tokenAddresses and hiddenTokens by the delivered lists (the
\* empty list for a field that is absent), starts no pass, issues no fetch
\* and leaves the timer, selectedAddress, isOpen and isUnlocked as they
\* are.
C16_SnapshotOnly ==
    [][CallbackRun' =>
          \A t \in TokenFields, i \in HiddenFields :
              TokensUpdate(t, i) =>
                  /\ tokenAddresses' = IF t.present THEN t.list ELSE <<>>
                  /\ hiddenTokens' = IF i.present THEN i.list ELSE <<>>
                  /\ NothingStarted
                  /\ last'.tokens = <<>>
                  /\ UNCHANGED <<selectedAddress, isOpen, isUnlocked>>]_vars

\* A tokensController update delivered a tracked token: without
\* preferences and keyringMemStore no other subscription exists.
C16_Witness ==
    /\ cfg.tokensController /\ ~cfg.preferences /\ ~cfg.keyringMemStore
    /\ last.op = "event"
    /\ tokenAddresses # <<>>
    /\ hiddenTokens = <<>>
    /\ timers # {}

\* The pass whose fetch completed in this step: the one that left the
\* bag of pending passes.
Completed(p) == inflight = inflight' (+) SetToBag({p})

Owners == Accounts \cup {"undefined"}

\* C17. One batched fetch per pass: a call of detectNewTokens that gets
\* past both gates (the token registry being given) issues exactly one
\* balance fetch, for the selected address and the whole list of
\* candidates, also when that list is empty; the continuation of a pass
\* that fetched the empty list calls addToken for nothing.
C17_OneBatchedFetch ==
    [][/\ (PassStarted' /\ GatesOpen') =>
              /\ last'.pass = "fetch"
              /\ last'.owner = selectedAddress'
              /\ last'.tokens = TokensToDetect(tokenAddresses', hiddenTokens')
              /\ BagCardinality(inflight') = BagCardinality(inflight) + 1
              /\ BagIn(LastFetch', inflight')
       /\ \A o \in Owners :
              (last'.op = "resolve" /\ Completed([owner |-> o, tokens |-> <<>>])) =>
                  last'.added = <<>>]_vars

\* A pass found every erc20 contract tracked or hidden and still issued
\* its fetch, with the empty list.
C17_Witness ==
    /\ GatesOpen
    /\ last.pass = "fetch"
    /\ last.tokens = <<>>
    /\ last.owner = selectedAddress
    /\ BagIn(LastFetch, inflight)

\* C18. Owner consistency: when the continuation of a pass calls
\* addToken, the selected address is still the owner whose balances the
\* pass fetched.
C18_OwnerConsistency ==
    [][\A p \in BagToSet(inflight) :
          (last'.op = "resolve" /\ Completed(p) /\ last'.added # <<>>) =>
              p.owner = selectedAddress']_vars

\* C19. Gates hold at registration time: whenever addToken is called,
\* isOpen and isUnlocked are true and the chain is mainnet.
C19_GatesAtRegistration ==
    (last.op = "resolve" /\ last.added # <<>>) =>
        /\ isOpen
        /\ isUnlocked = "true"
        /\ chainId = MAINNET_CHAIN_ID

\* C20. No duplicate registration: addToken is never called for an address
\* that is in the tracked-address snapshot at the moment of the call.
C20_NoDuplicateRegistration ==
    last.op = "resolve" =>
        \A t \in Range(last.added) : ~IsTracked(tokenAddresses, t)

====
